---- MODULE Spec2Model ----
(***************************************************************************)
(* A model of the Ruby transpiler of mickey-gs/semantic:                   *)
(*   src/src/ruby-transpiler/ruby-transpiler.js                            *)
(* (class RubyTranspiler, lines 1-158, and its super class                  *)
(* TranspilerSuper, lines 159-439).                                        *)
(*                                                                         *)
(* Text is a sequence of one-character strings, so that the regular        *)
(* expressions of RubyTranspiler.correct are modelled on characters.       *)
(* The AST is a heap of nodes (the transpiler mutates the caller's nodes), *)
(* the recursive descent is a stack of frames.                             *)
(***************************************************************************)
EXTENDS Integers, Sequences, FiniteSets, TLC

VARIABLES
    heap,       \* the caller's AST: node id -> node (mutated by the handlers)
    heap0,      \* the AST as the caller built it (never changes)
    input,      \* what the caller holds: the roots it may hand to parse
    buffer,     \* this.buffer of the transpiler instance
    stack,      \* the call stack of the recursive descent, top first
    pc,         \* "idle" between calls of parse, "dispatch" inside one
    run,        \* the parse call in progress: its root and the state it began in
    results     \* what the parse calls so far returned, oldest first

vars == <<heap, heap0, input, buffer, stack, pc, run, results>>

----------------------------------------------------------------------------
(* Bounds of the model.                                                    *)

\* parse calls made on one transpiler instance
MaxRuns == 2

\* nesting depth of the binary expressions the caller translates
MaxDepth == 2

----------------------------------------------------------------------------
(* Text: sequences of characters.                                          *)

Chars(s) == [i \in 1..Len(s) |-> SubSeq(s, i, i)]

NL == "\n"

WordChars ==
    { c : c \in { Chars("abcdefghijklmnopqrstuvwxyzABCDEFGHIJKLMNOPQRSTUVWXYZ0123456789_")[i]
                  : i \in 1..63 } }

\* \w of the regular expressions
IsWord(c) == c \in WordChars

\* \s of the regular expressions, over the characters the buffer can hold
IsSpace(c) == c \in {" ", NL}

\* t has p at position i
At(t, p, i) ==
    /\ i >= 1
    /\ i + Len(p) - 1 <= Len(t)
    /\ \A k \in 1..Len(p) : t[i + k - 1] = p[k]

\* String.prototype.indexOf, 1-based; 0 when p does not occur at or after from
IndexOf(t, p, from) ==
    LET hits == { i \in from..(Len(t) - Len(p) + 1) : At(t, p, i) }
    IN  IF hits = {} THEN 0 ELSE CHOOSE i \in hits : \A j \in hits : i <= j

Contains(t, p) == IndexOf(t, p, 1) # 0

\* the text from position i to position j (empty when j < i)
Slice(t, i, j) == IF j < i THEN <<>> ELSE SubSeq(t, i, j)

\* the position of the first newline at or after i, Len(t)+1 when there is none
LineEnd(t, i) ==
    LET hits == { k \in i..Len(t) : t[k] = NL }
    IN  IF hits = {} THEN Len(t) + 1 ELSE CHOOSE k \in hits : \A j \in hits : k <= j

\* the position after the maximal run of word characters that starts at i
RECURSIVE WordEnd(_, _)
WordEnd(t, i) == IF i <= Len(t) /\ IsWord(t[i]) THEN WordEnd(t, i + 1) ELSE i

\* String.prototype.replace(p, r) with a string pattern: the first occurrence
ReplaceFirst(t, p, r) ==
    LET i == IndexOf(t, p, 1)
    IN  IF i = 0 THEN t ELSE Slice(t, 1, i - 1) \o r \o Slice(t, i + Len(p), Len(t))

\* String.prototype.split(sep)
RECURSIVE Split(_, _)
Split(t, sep) ==
    LET i == IndexOf(t, sep, 1)
    IN  IF i = 0 THEN <<t>>
        ELSE <<Slice(t, 1, i - 1)>> \o Split(Slice(t, i + Len(sep), Len(t)), sep)

\* Array.prototype.join(sep)
RECURSIVE Join(_, _)
Join(parts, sep) ==
    IF Len(parts) = 0 THEN <<>>
    ELSE IF Len(parts) = 1 THEN parts[1]
    ELSE parts[1] \o sep \o Join(Tail(parts), sep)

\* how many times p occurs in t (overlaps counted)
Count(t, p) == Cardinality({ i \in 1..Len(t) : At(t, p, i) })

----------------------------------------------------------------------------
(* The Emission Buffer (../buffer/buffer.js is not part of the sources;    *)
(* modelled from its contract).  The text is kept flat: lines are the runs *)
(* between newline characters, the current line is the run after the last. *)

\* spaces emitted per indentation level
IndentUnit == 2

RECURSIVE Spaces(_)
Spaces(n) == IF n <= 0 THEN <<>> ELSE <<" ">> \o Spaces(n - 1)

NewBuffer == [text |-> <<>>, indentation |-> 0]

BufferAdd(b, s) == [b EXCEPT !.text = @ \o s]

BufferNewline(b) == [b EXCEPT !.text = @ \o <<NL>> \o Spaces(IndentUnit * b.indentation)]

BufferIndent(b) == [b EXCEPT !.indentation = @ + 1]

BufferDedent(b) == [b EXCEPT !.indentation = @ - 1]

RECURSIVE TrimEnd(_)
TrimEnd(t) ==
    IF Len(t) > 0 /\ IsSpace(t[Len(t)]) THEN TrimEnd(SubSeq(t, 1, Len(t) - 1)) ELSE t

BufferTrim(b) == [b EXCEPT !.text = TrimEnd(@)]

\* the position of the last newline of t, 0 when there is none
LastNL(t) ==
    LET hits == { k \in 1..Len(t) : t[k] = NL }
    IN  IF hits = {} THEN 0 ELSE CHOOSE k \in hits : \A j \in hits : k >= j

\* the current (unterminated) line
CurLine(t) == Slice(t, LastNL(t) + 1, Len(t))

\* t without its last terminated line; the current line stays
DropLine(t) ==
    LET e == LastNL(t)
        s == LastNL(Slice(t, 1, e - 1))
    IN  IF e = 0 THEN t ELSE Slice(t, 1, s) \o CurLine(t)

RECURSIVE DropLines(_, _)
DropLines(t, n) == IF n <= 0 THEN t ELSE DropLines(DropLine(t), n - 1)

BufferDeleteLines(b, n) == [b EXCEPT !.text = DropLines(@, n)]

BufferGet(b) == b.text

----------------------------------------------------------------------------
(* AST nodes.  Every node carries every field; a field a node type does    *)
(* not have is 0 (no node) or <<>> (no list).                              *)

Blank ==
    [type |-> "", name |-> <<>>, operator |-> <<>>, raw |-> <<>>,
     prefix |-> FALSE, computed |-> FALSE,
     body |-> <<>>, expression |-> 0, id |-> 0, params |-> <<>>,
     left |-> 0, right |-> 0, declarations |-> <<>>, init |-> 0,
     argument |-> 0, callee |-> 0, arguments |-> <<>>, object |-> 0,
     property |-> 0, test |-> 0, consequent |-> 0, alternate |-> 0,
     update |-> 0]

\* A tree as the front-end hands it over: the node and its children, each
\* child under the field that holds it ("one": the field is the child,
\* "many": the field is a list the child is appended to).
Tree(node, kids) == [node |-> node, kids |-> kids]
One(f, t) == <<f, "one", t>>
Many(f, ts) == [i \in 1..Len(ts) |-> <<f, "many", ts[i]>>]
Opt(f, ts) == [i \in 1..Len(ts) |-> <<f, "one", ts[i]>>]

\* Lay a tree out in the heap from address base on, in preorder.
RECURSIVE Flatten(_, _), FlattenKids(_, _, _, _)
FlattenKids(kids, base, node, below) ==
    IF Len(kids) = 0 THEN <<node, below>>
    ELSE LET k == kids[1]
             sub == Flatten(k[3], base)
             linked == IF k[2] = "many"
                       THEN [node EXCEPT ![k[1]] = Append(@, base)]
                       ELSE [node EXCEPT ![k[1]] = base]
         IN  FlattenKids(Tail(kids), base + Len(sub), linked, below \o sub)
Flatten(t, base) ==
    LET r == FlattenKids(t.kids, base + 1, t.node, <<>>)
    IN  <<r[1]>> \o r[2]

\* Several trees in one heap: the heap and the address of each root.
RECURSIVE Forest(_, _, _)
Forest(ts, h, rs) ==
    IF Len(ts) = 0 THEN [heap |-> h, roots |-> rs]
    ELSE Forest(Tail(ts), h \o Flatten(ts[1], Len(h) + 1), Append(rs, Len(h) + 1))

NIdentifier(name) == Tree([Blank EXCEPT !.type = "Identifier", !.name = Chars(name)], <<>>)
NNumericLiteral(raw) == Tree([Blank EXCEPT !.type = "NumericLiteral", !.raw = Chars(raw)], <<>>)
NStringLiteral(raw) == Tree([Blank EXCEPT !.type = "StringLiteral", !.raw = Chars(raw)], <<>>)
NImportDeclaration == Tree([Blank EXCEPT !.type = "ImportDeclaration"], <<>>)
NProgram(stmts) == Tree([Blank EXCEPT !.type = "Program"], Many("body", stmts))
NBlockStatement(stmts) == Tree([Blank EXCEPT !.type = "BlockStatement"], Many("body", stmts))
NExpressionStatement(e) ==
    Tree([Blank EXCEPT !.type = "ExpressionStatement"], <<One("expression", e)>>)
NFunctionDeclaration(id, params, body) ==
    Tree([Blank EXCEPT !.type = "FunctionDeclaration"],
         <<One("id", NIdentifier(id))>>
         \o Many("params", [i \in 1..Len(params) |-> NIdentifier(params[i])])
         \o <<One("body", body)>>)
NAssignmentExpression(op, l, r) ==
    Tree([Blank EXCEPT !.type = "AssignmentExpression", !.operator = Chars(op)],
         <<One("left", l), One("right", r)>>)
NVariableDeclaration(id, inits) ==
    Tree([Blank EXCEPT !.type = "VariableDeclaration"],
         Many("declarations",
              <<Tree([Blank EXCEPT !.type = "VariableDeclarator"],
                     <<One("id", NIdentifier(id))>> \o Opt("init", inits))>>))
NReturnStatement(args) ==
    Tree([Blank EXCEPT !.type = "ReturnStatement"], Opt("argument", args))
NCallExpression(callee, args) ==
    Tree([Blank EXCEPT !.type = "CallExpression"],
         <<One("callee", callee)>> \o Many("arguments", args))
NMemberExpression(object, property, computed) ==
    Tree([Blank EXCEPT !.type = "MemberExpression", !.computed = computed],
         <<One("object", object), One("property", property)>>)
NBinaryExpression(op, l, r) ==
    Tree([Blank EXCEPT !.type = "BinaryExpression", !.operator = Chars(op)],
         <<One("left", l), One("right", r)>>)
NLogicalExpression(op, l, r) ==
    Tree([Blank EXCEPT !.type = "LogicalExpression", !.operator = Chars(op)],
         <<One("left", l), One("right", r)>>)
NUpdateExpression(op, prefix, arg) ==
    Tree([Blank EXCEPT !.type = "UpdateExpression", !.operator = Chars(op), !.prefix = prefix],
         <<One("argument", arg)>>)
NIfStatement(test, consequent, alternates) ==
    Tree([Blank EXCEPT !.type = "IfStatement"],
         <<One("test", test), One("consequent", consequent)>> \o Opt("alternate", alternates))
NWhileStatement(test, body) ==
    Tree([Blank EXCEPT !.type = "WhileStatement"], <<One("test", test), One("body", body)>>)
NForStatement(init, test, update, body) ==
    Tree([Blank EXCEPT !.type = "ForStatement"],
         <<One("init", init), One("test", test), One("update", update), One("body", body)>>)

----------------------------------------------------------------------------
(* The recursive descent.  A frame of the stack is a node still to be      *)
(* dispatched (recursiveParse), a buffer call still to be made, a later    *)
(* step of a handler, or the return of a handler.                          *)

Frame(k) == [k |-> k, n |-> 0, s |-> <<>>, op |-> "", ind |-> 0]
Visit(n) == [Frame("node") EXCEPT !.n = n]
Add(s) == [Frame("add") EXCEPT !.s = Chars(s)]
AddText(s) == [Frame("add") EXCEPT !.s = s]
Newline == Frame("newline")
Indent == Frame("indent")
Dedent == Frame("dedent")
Trim == Frame("trim")
DeleteLines(n) == [Frame("deleteLines") EXCEPT !.n = n]
Step(k, n) == [Frame(k) EXCEPT !.n = n]
Ret(op) == [Frame("ret") EXCEPT !.op = op, !.ind = buffer.indentation]

\* recursiveParse of each node of a list, sep added between two of them
RECURSIVE VisitAll(_, _)
VisitAll(ns, sep) ==
    IF Len(ns) = 0 THEN <<>>
    ELSE IF Len(ns) = 1 THEN <<Visit(ns[1])>>
    ELSE <<Visit(ns[1]), Add(sep)>> \o VisitAll(Tail(ns), sep)

RECURSIVE VisitEach(_)
VisitEach(ns) == IF Len(ns) = 0 THEN <<>> ELSE <<Visit(ns[1])>> \o VisitEach(Tail(ns))

Top == stack[1]
Running == pc = "dispatch" /\ Len(stack) > 0

\* this[node.type](node) selects the handler named by the node's type
Dispatching(type) == Running /\ Top.k = "node" /\ heap[Top.n].type = type

\* the handler's body runs, then the handler returns
Body(op, frames) ==
    /\ stack' = frames \o <<Ret(op)>> \o Tail(stack)
    /\ UNCHANGED <<heap, heap0, input, buffer, pc, run, results>>

(* TranspilerSuper's handlers: what each does to the buffer, in order.     *)
Super_ExpressionStatement(node) == <<Visit(node.expression)>>

Super_FunctionDeclaration(node) ==
    <<Visit(node.id), Add("(")>> \o VisitAll(node.params, ", ")
    \o <<Add(")"), Visit(node.body), Newline>>

Super_BlockStatement(node) == VisitEach(node.body)

Super_VariableDeclaration(node) == VisitEach(node.declarations)

Super_ReturnStatement(node) ==
    IF node.argument # 0 THEN <<Visit(node.argument)>> ELSE <<>>

Program ==
    /\ Dispatching("Program")
    /\ Body("Program", VisitEach(heap[Top.n].body))

ImportDeclaration ==
    /\ Dispatching("ImportDeclaration")
    /\ Body("ImportDeclaration", <<Add("@DELETE@\n")>>)

ExpressionStatement ==
    /\ Dispatching("ExpressionStatement")
    /\ Body("ExpressionStatement", Super_ExpressionStatement(heap[Top.n]) \o <<Newline>>)

FunctionDeclaration ==
    /\ Dispatching("FunctionDeclaration")
    /\ Body("FunctionDeclaration", <<Add("def ")>> \o Super_FunctionDeclaration(heap[Top.n]))

AssignmentExpression ==
    /\ Dispatching("AssignmentExpression")
    /\ LET node == heap[Top.n]
       IN  Body("AssignmentExpression",
                <<Visit(node.left), Add(" "), AddText(node.operator), Add(" "),
                  Visit(node.right)>>)

\* BlockStatement with the dedent of line 103 forgotten
BlockStatementNoDedent ==
    /\ Dispatching("BlockStatement")
    /\ Body("BlockStatement",
            <<Indent, Newline>> \o Super_BlockStatement(heap[Top.n])
            \o <<Trim, Newline, Add("end"), Newline>>)

BlockStatement ==
    /\ Dispatching("BlockStatement")
    /\ Body("BlockStatement",
            <<Indent, Newline>> \o Super_BlockStatement(heap[Top.n])
            \o <<Trim, Dedent, Newline, Add("end"), Newline>>)

VariableDeclaration ==
    /\ Dispatching("VariableDeclaration")
    /\ Body("VariableDeclaration", Super_VariableDeclaration(heap[Top.n]) \o <<Newline>>)

VariableDeclarator ==
    /\ Dispatching("VariableDeclarator")
    /\ LET node == heap[Top.n]
       IN  Body("VariableDeclarator",
                <<Visit(node.id)>>
                \o (IF node.init # 0 THEN <<Add(" = "), Visit(node.init)>> ELSE <<>>))

ReturnStatement ==
    /\ Dispatching("ReturnStatement")
    /\ Body("ReturnStatement",
            <<Add("return ")>> \o Super_ReturnStatement(heap[Top.n]) \o <<Newline>>)

CallExpression ==
    /\ Dispatching("CallExpression")
    /\ LET node == heap[Top.n]
       IN  Body("CallExpression",
                <<Visit(node.callee), Add("(")>> \o VisitAll(node.arguments, ", ")
                \o <<Add(")")>>)

MemberExpression ==
    /\ Dispatching("MemberExpression")
    /\ LET node == heap[Top.n]
       IN  Body("MemberExpression",
                (IF Len(heap[node.object].name) > 0
                 THEN <<AddText(heap[node.object].name)>>
                 ELSE <<Visit(node.object)>>)
                \o (IF node.computed
                    THEN <<Add("["), AddText(heap[node.property].name), Add("]")>>
                    ELSE <<Add("."), AddText(heap[node.property].name)>>))

\* an operand that tests the operator instead of the operand's type
OperandByOperator(n) ==
    IF heap[n].type = "BinaryExpression" /\ heap[n].operator = Chars("+")
    THEN <<Add("("), Visit(n), Add(")")>>
    ELSE <<Visit(n)>>

\* one operand of a binary expression (lines 301-308 and 312-319)
Operand(n) ==
    IF heap[n].type = "BinaryExpression"
    THEN <<Add("("), Visit(n), Add(")")>>
    ELSE <<Visit(n)>>

BinaryExpression ==
    /\ Dispatching("BinaryExpression")
    /\ LET node == heap[Top.n]
       IN  Body("BinaryExpression",
                Operand(node.left)
                \o <<Add(" "), AddText(node.operator), Add(" ")>>
                \o Operand(node.right))

LogicalExpression ==
    /\ Dispatching("LogicalExpression")
    /\ LET node == heap[Top.n]
       IN  Body("LogicalExpression",
                <<Visit(node.left), AddText(<<" ">> \o node.operator \o <<" ">>),
                  Visit(node.right)>>)

WhileStatement ==
    /\ Dispatching("WhileStatement")
    /\ LET node == heap[Top.n]
       IN  Body("WhileStatement",
                <<Add("while ("), Visit(node.test), Add(")"), Visit(node.body)>>)

UpdateExpression ==
    /\ Dispatching("UpdateExpression")
    /\ LET node == heap[Top.n]
       IN  Body("UpdateExpression",
                (IF node.prefix THEN <<AddText(node.operator)>> ELSE <<>>)
                \o <<Visit(node.argument)>>
                \o (IF ~node.prefix THEN <<AddText(node.operator)>> ELSE <<>>))

Identifier ==
    /\ Dispatching("Identifier")
    /\ Body("Identifier", <<AddText(heap[Top.n].name)>>)

NumericLiteral ==
    /\ Dispatching("NumericLiteral")
    /\ Body("NumericLiteral", <<AddText(heap[Top.n].raw)>>)

StringLiteral ==
    /\ Dispatching("StringLiteral")
    /\ Body("StringLiteral", <<AddText(heap[Top.n].raw)>>)

(* IfStatement: the test, then the consequent (wrapped when it is no       *)
(* block), then the alternate.                                             *)
IfStatement ==
    /\ Dispatching("IfStatement")
    /\ Body("IfStatement",
            <<Add("if "), Visit(heap[Top.n].test),
              Step("IfConsequent", Top.n), Step("IfAlternate", Top.n)>>)

\* Object.assign(target, source): source's own properties, then target's others
ObjectAssign(target, source) ==
    [f \in DOMAIN target \cup DOMAIN source |->
        IF f \in DOMAIN source THEN source[f] ELSE target[f]]

IfConsequent ==
    /\ Running /\ Top.k = "IfConsequent"
    /\ LET c == heap[Top.n].consequent
           tempNode == ObjectAssign([type |-> "ReturnStatement"], heap[c])
       IN  /\ heap' = IF heap[c].type # "BlockStatement"
                      THEN Append([heap EXCEPT ![c].type = "BlockStatement",
                                               ![c].body = <<Len(heap) + 1>>],
                                  tempNode)
                      ELSE heap
           /\ stack' = <<Visit(c)>> \o Tail(stack)
    /\ UNCHANGED <<heap0, input, buffer, pc, run, results>>

IfAlternate ==
    /\ Running /\ Top.k = "IfAlternate"
    /\ stack' = (IF heap[Top.n].alternate # 0
                 THEN <<DeleteLines(1), Add("else "), Visit(heap[Top.n].alternate)>>
                 ELSE <<>>) \o Tail(stack)
    /\ UNCHANGED <<heap, heap0, input, buffer, pc, run, results>>

(* ForStatement: the initializer, then the node becomes a while loop.      *)
ForStatement ==
    /\ Dispatching("ForStatement")
    /\ Body("ForStatement", <<Visit(heap[Top.n].init), Step("ForDesugar", Top.n)>>)

ForDesugar ==
    /\ Running /\ Top.k = "ForDesugar"
    /\ LET node == heap[Top.n]
       IN  heap' = [heap EXCEPT ![Top.n].type = "WhileStatement",
                                ![node.body].body = Append(@, node.update)]
    /\ stack' = <<Visit(Top.n)>> \o Tail(stack)
    /\ UNCHANGED <<heap0, input, buffer, pc, run, results>>

(* The buffer calls of a handler, and its return.                          *)
BufferCall(k, b) ==
    /\ Running /\ Top.k = k
    /\ buffer' = b
    /\ stack' = Tail(stack)
    /\ UNCHANGED <<heap, heap0, input, pc, run, results>>

BufferAddCall == BufferCall("add", BufferAdd(buffer, Top.s))
BufferNewlineCall == BufferCall("newline", BufferNewline(buffer))
BufferIndentCall == BufferCall("indent", BufferIndent(buffer))
BufferDedentCall == BufferCall("dedent", BufferDedent(buffer))
BufferTrimCall == BufferCall("trim", BufferTrim(buffer))
BufferDeleteLinesCall == BufferCall("deleteLines", BufferDeleteLines(buffer, Top.n))

Return ==
    /\ Running /\ Top.k = "ret"
    /\ stack' = Tail(stack)
    /\ UNCHANGED <<heap, heap0, input, buffer, pc, run, results>>

----------------------------------------------------------------------------
(* The Correction Pipeline: RubyTranspiler.correct, one operator per step. *)
(* A regular expression is modelled by the match it finds: '.' is any      *)
(* character but a newline, a greedy '.+' before a literal runs to the     *)
(* last place on the line where the literal follows.                       *)

Uppers == Chars("ABCDEFGHIJKLMNOPQRSTUVWXYZ")
Lowers == Chars("abcdefghijklmnopqrstuvwxyz")

\* the 'i' flag: letters compare by their lower case
Lower(c) ==
    IF \E k \in 1..26 : Uppers[k] = c
    THEN Lowers[CHOOSE k \in 1..26 : Uppers[k] = c]
    ELSE c

\* t has the literal p at position i, under the 'i' flag
AtI(t, p, i) ==
    /\ i >= 1
    /\ i + Len(p) - 1 <= Len(t)
    /\ \A k \in 1..Len(p) : Lower(t[i + k - 1]) = Lower(p[k])

Least(S) == CHOOSE i \in S : \A j \in S : i <= j
Greatest(S) == CHOOSE i \in S : \A j \in S : i >= j

\* the last position in lo..hi that holds c, 0 when there is none
LastOf(t, c, lo, hi) ==
    LET hits == { k \in lo..hi : k <= Len(t) /\ t[k] = c }
    IN  IF hits = {} THEN 0 ELSE Greatest(hits)

(* Step 1: the correction table (./src/ruby-transpiler/ruby.json is not    *)
(* part of the sources).  The one entry the sources imply: the token that  *)
(* ImportDeclaration emits "will be deleted later".                        *)
corrections == << <<Chars("@DELETE@\n"), <<>>>> >>

\* code.replace(new RegExp(key, 'gmi'), value) for a key without metacharacters
RECURSIVE ReplaceAll(_, _, _)
ReplaceAll(t, key, value) ==
    LET hits == { i \in 1..Len(t) : AtI(t, key, i) }
    IN  IF hits = {} \/ Len(key) = 0 THEN t
        ELSE Slice(t, 1, Least(hits) - 1) \o value
             \o ReplaceAll(Slice(t, Least(hits) + Len(key), Len(t)), key, value)

\* the loop of lines 23-25
RECURSIVE ApplyCorrections(_, _)
ApplyCorrections(code, table) ==
    IF Len(table) = 0 THEN code
    ELSE ApplyCorrections(ReplaceAll(code, table[1][1], table[1][2]), Tail(table))

(* Step 2: /Math.floor\((.+)\)/gm -> '($1).floor'                          *)
\* where the match that starts at i ends (its closing parenthesis), 0 for none
FloorClose(t, i) ==
    IF /\ At(t, Chars("Math"), i)
       /\ i + 4 <= Len(t) /\ t[i + 4] # NL
       /\ At(t, Chars("floor("), i + 5)
    THEN LastOf(t, ")", i + 12, LineEnd(t, i + 11) - 1)
    ELSE 0

RECURSIVE FloorFrom(_, _)
FloorFrom(t, pos) ==
    LET starts == { i \in pos..Len(t) : FloorClose(t, i) # 0 }
    IN  IF starts = {} THEN Slice(t, pos, Len(t))
        ELSE LET i == Least(starts)
                 j == FloorClose(t, i)
             IN  Slice(t, pos, i - 1)
                 \o Chars("(") \o Slice(t, i + 11, j - 1) \o Chars(").floor")
                 \o FloorFrom(t, j + 1)

CorrectFloor(code) == FloorFrom(code, 1)

(* Step 3: /def (\w+)\(.+\)\n(.+\n)+/gmi with the callback that marks the  *)
(* parameters the function calls.                                          *)

\* the position after the run of non-empty, terminated lines that starts at p
RECURSIVE LinesEnd(_, _)
LinesEnd(t, p) ==
    LET l == LineEnd(t, p)
    IN  IF p <= Len(t) /\ l <= Len(t) /\ l > p THEN LinesEnd(t, l + 1) ELSE p

\* where the match that starts at i ends (the position after it), 0 for none
DefEnd(t, i) ==
    LET e == WordEnd(t, i + 4)
        l == LineEnd(t, i)
    IN  IF /\ AtI(t, Chars("def "), i)
           /\ e > i + 4 /\ e <= Len(t) /\ t[e] = "("
           /\ l <= Len(t) /\ t[l - 1] = ")" /\ l - 1 >= e + 2
           /\ LinesEnd(t, l + 1) > l + 1
        THEN LinesEnd(t, l + 1)
        ELSE 0

\* def.matchAll(/def \w+\((.+)\)/gmi): the parameter lists, in order
HeaderClose(t, h) ==
    LET w == WordEnd(t, h + 4)
    IN  IF AtI(t, Chars("def "), h) /\ w > h + 4 /\ w <= Len(t) /\ t[w] = "("
        THEN LastOf(t, ")", w + 2, LineEnd(t, w) - 1)
        ELSE 0

RECURSIVE ParameterLists(_, _)
ParameterLists(def, pos) ==
    LET starts == { h \in pos..Len(def) : HeaderClose(def, h) # 0 }
    IN  IF starts = {} THEN <<>>
        ELSE LET h == Least(starts)
                 j == HeaderClose(def, h)
             IN  <<Slice(def, WordEnd(def, h + 4) + 1, j - 1)>> \o ParameterLists(def, j + 1)

\* parameterList.matchAll(/([^\s,]+\(.+?\))|([^\s,]+)/gmi): the runs of
\* characters that are neither white space nor a comma.  (The first
\* alternative needs a parenthesis in the list; a parameter is an Identifier.)
RECURSIVE Params(_, _)
Params(list, pos) ==
    LET starts == { a \in pos..Len(list) : ~IsSpace(list[a]) /\ list[a] # "," }
    IN  IF starts = {} THEN <<>>
        ELSE LET a == Least(starts)
                 stops == { b \in a..Len(list) : IsSpace(list[b]) \/ list[b] = "," }
                 b == IF stops = {} THEN Len(list) + 1 ELSE Least(stops)
             IN  <<Slice(list, a, b - 1)>> \o Params(list, b)

\* higherOrderFuncs[name] = pos: an object keeps its keys in insertion order
SetFunc(funcs, name, pos) ==
    IF \E k \in 1..Len(funcs) : funcs[k].name = name
    THEN [k \in 1..Len(funcs) |->
            IF funcs[k].name = name THEN [funcs[k] EXCEPT !.pos = pos] ELSE funcs[k]]
    ELSE Append(funcs, [name |-> name, pos |-> pos])

\* the loop over one parameter list (lines 36-43); st is [def, funcs]
RECURSIVE MarkParams(_, _, _, _)
MarkParams(params, pos, name, st) ==
    IF Len(params) = 0 THEN st
    ELSE LET call == params[1] \o Chars("(")
         IN  MarkParams(Tail(params), pos + 1, name,
                IF Contains(st.def, call)
                THEN [def |-> ReplaceFirst(st.def, call, params[1] \o Chars(".call(")),
                      funcs |-> SetFunc(st.funcs, name, pos)]
                ELSE st)

\* the loop over the parameter lists (lines 33-44)
RECURSIVE MarkLists(_, _, _)
MarkLists(lists, name, st) ==
    IF Len(lists) = 0 THEN st
    ELSE MarkLists(Tail(lists), name, MarkParams(Params(lists[1], 1), 0, name, st))

\* the callback (lines 31-47)
MarkDef(def, name, funcs) ==
    MarkLists(ParameterLists(def, 1), name, [def |-> def, funcs |-> funcs])

\* the replace of lines 31-47 from pos on: the new text and higherOrderFuncs
RECURSIVE HigherOrderFrom(_, _, _)
HigherOrderFrom(t, pos, funcs) ==
    LET starts == { i \in pos..Len(t) : DefEnd(t, i) # 0 }
    IN  IF starts = {} THEN [code |-> Slice(t, pos, Len(t)), funcs |-> funcs]
        ELSE LET i == Least(starts)
                 e == DefEnd(t, i)
                 m == MarkDef(Slice(t, i, e - 1), Slice(t, i + 4, WordEnd(t, i + 4) - 1), funcs)
                 rest == HigherOrderFrom(t, e, m.funcs)
             IN  [code |-> Slice(t, pos, i - 1) \o m.def \o rest.code, funcs |-> rest.funcs]

HigherOrder(code) == HigherOrderFrom(code, 1, <<>>)

(* Step 4, per recorded function:                                          *)
(* /(.*(?<!def\s)mathematics\()((\w+(\([^()]+\))?(,\s)?)+)(\).+)/gmi       *)

\* the function name the call-site pattern looks for
CallSiteName == Chars("mathematics(")

\* the position after '(' [^()]+ ')' at w, w itself when that does not match
GroupEnd(t, w) ==
    LET parens == { k \in (w + 1)..Len(t) : t[k] \in {"(", ")"} }
    IN  IF w <= Len(t) /\ t[w] = "(" /\ parens # {} /\ Least(parens) > w + 1
           /\ t[Least(parens)] = ")"
        THEN Least(parens) + 1
        ELSE w

\* the position after the longest (\w+(\([^()]+\))?(,\s)?)+ at p, p when none
RECURSIVE ItemsEnd(_, _)
ItemsEnd(t, p) ==
    LET w == WordEnd(t, p)
        g == GroupEnd(t, w)
        c == IF g + 1 <= Len(t) /\ t[g] = "," /\ IsSpace(t[g + 1]) THEN g + 2 ELSE g
    IN  IF w = p THEN p ELSE ItemsEnd(t, c)

\* the pattern matches with its 'mathematics(' at q
CallSiteAt(t, q) ==
    LET e == ItemsEnd(t, q + Len(CallSiteName))
    IN  /\ AtI(t, CallSiteName, q)
        /\ ~(AtI(t, Chars("def"), q - 4) /\ IsSpace(t[q - 1]))
        /\ e > q + Len(CallSiteName)
        /\ e + 1 <= Len(t) /\ t[e] = ")" /\ t[e + 1] # NL

\* params.replace(/\w+(\(.+\))?/gmi, replacer) from pos on; i is replacer.i
RECURSIVE ReplaceParams(_, _, _, _)
ReplaceParams(params, pos, i, target) ==
    LET starts == { a \in pos..Len(params) : IsWord(params[a]) }
    IN  IF starts = {} THEN [text |-> Slice(params, pos, Len(params)), i |-> i]
        ELSE LET a == Least(starts)
                 w == WordEnd(params, a)
                 j == IF w <= Len(params) /\ params[w] = "("
                      THEN LastOf(params, ")", w + 2, LineEnd(params, w) - 1)
                      ELSE 0
                 stop == IF j # 0 THEN j + 1 ELSE w
                 param == Slice(params, a, stop - 1)
                 rest == ReplaceParams(params, stop, i + 1, target)
             IN  [text |-> Slice(params, pos, a - 1)
                           \o (IF i + 1 = target
                               THEN Chars("method(:") \o param \o Chars(")")
                               ELSE param)
                           \o rest.text,
                  i |-> rest.i]

\* the replace of lines 65-67 from the line that starts at ls on
RECURSIVE CallSitesFrom(_, _, _, _)
CallSitesFrom(t, ls, i, target) ==
    LET l == LineEnd(t, ls)
        sites == { q \in ls..(l - 1) : CallSiteAt(t, q) }
    IN  IF ls > Len(t) THEN <<>>
        ELSE IF sites = {}
        THEN Slice(t, ls, l) \o CallSitesFrom(t, l + 1, i, target)
        ELSE LET q == Greatest(sites)
                 p == q + Len(CallSiteName)
                 e == ItemsEnd(t, p)
                 l2 == LineEnd(t, e)
                 r == ReplaceParams(Slice(t, p, e - 1), 1, i, target)
             IN  Slice(t, ls, p - 1) \o r.text \o Slice(t, e, l2)
                 \o CallSitesFrom(t, l2 + 1, r.i, target)

\* the loop of lines 49-68: replacer.i starts undefined for every function
RECURSIVE CallSites(_, _)
CallSites(code, funcs) ==
    IF Len(funcs) = 0 THEN code
    ELSE CallSites(CallSitesFrom(code, 1, -1, funcs[1].pos), Tail(funcs))

(* Step 5: /(\w+)\+\+/gmi -> '$1 += 1'                                     *)
RECURSIVE IncrementFrom(_, _)
IncrementFrom(t, pos) ==
    LET starts == { a \in pos..Len(t) :
                      IsWord(t[a]) /\ At(t, Chars("++"), WordEnd(t, a)) }
    IN  IF starts = {} THEN Slice(t, pos, Len(t))
        ELSE LET a == Least(starts)
                 w == WordEnd(t, a)
             IN  Slice(t, pos, w - 1) \o Chars(" += 1") \o IncrementFrom(t, w + 2)

CorrectIncrement(code) == IncrementFrom(code, 1)

(* Step 6: /puts\((.+)\)\n/gmi with the callback that stringifies.         *)
Quotes == {"'", "\""}

\* lines 76-80, for one element of args
Stringify(arg) ==
    IF Len(arg) > 0 /\ arg[1] \in Quotes
    THEN arg
    ELSE Chars("(") \o arg \o Chars(")") \o Chars(".to_s")

\* the callback (lines 73-83) on the captured argument text
PutsArgs(captured) ==
    LET args == Split(captured, Chars(" + "))
    IN  Join([k \in 1..Len(args) |-> Stringify(args[k])], Chars(" + "))

\* the match that starts at i: 'puts(' ... ')' at the end of a terminated line
PutsAt(t, i) ==
    LET l == LineEnd(t, i)
    IN  AtI(t, Chars("puts("), i) /\ l <= Len(t) /\ t[l - 1] = ")" /\ l - 1 >= i + 6

RECURSIVE PutsFrom(_, _)
PutsFrom(t, pos) ==
    LET starts == { i \in pos..Len(t) : PutsAt(t, i) }
    IN  IF starts = {} THEN Slice(t, pos, Len(t))
        ELSE LET i == Least(starts)
                 l == LineEnd(t, i)
             IN  Slice(t, pos, i - 1)
                 \o Chars("puts(") \o PutsArgs(Slice(t, i + 5, l - 2)) \o Chars(")\n")
                 \o PutsFrom(t, l + 1)

CorrectPuts(code) == PutsFrom(code, 1)

\* correct(code), lines 22-86
Correct(code) ==
    LET c1 == ApplyCorrections(code, corrections)
        c2 == CorrectFloor(c1)
        c3 == HigherOrder(c2)
        c4 == CallSites(c3.code, c3.funcs)
        c5 == CorrectIncrement(c4)
    IN  CorrectPuts(c5)

----------------------------------------------------------------------------
(* The caller: parse(root) on the one transpiler instance, and clear().    *)

\* parse(node), lines 12-15, up to the call of recursiveParse
Parse(r) ==
    /\ pc = "idle"
    /\ Len(results) < MaxRuns
    /\ pc' = "dispatch"
    /\ stack' = <<Visit(r)>>
    /\ run' = [root |-> r, fresh |-> buffer = NewBuffer, pristine |-> heap = heap0]
    /\ UNCHANGED <<heap, heap0, input, buffer, results>>

\* parse(node), lines 13-14: recursiveParse has returned this.buffer.get(),
\* parse returns this.correct(code)
ParseReturn ==
    /\ pc = "dispatch"
    /\ Len(stack) = 0
    /\ pc' = "idle"
    /\ results' = Append(results,
                         [root |-> run.root, fresh |-> run.fresh, pristine |-> run.pristine,
                          raw |-> BufferGet(buffer), text |-> Correct(BufferGet(buffer))])
    /\ UNCHANGED <<heap, heap0, input, buffer, stack, run>>

\* clear(), lines 182-184: only a caller that asks for it gets a new buffer
Clear ==
    /\ pc = "idle"
    /\ buffer # NewBuffer
    /\ buffer' = NewBuffer
    /\ UNCHANGED <<heap, heap0, input, stack, pc, run, results>>

----------------------------------------------------------------------------
(* The programs the caller translates.                                     *)

Stmt(e) == NExpressionStatement(e)
Call1(f, a) == NCallExpression(NIdentifier(f), <<a>>)

\* for (init; test; update) { body } and init; while (test) { body; update; }
ForPair(init, test, update, body) ==
    [kind |-> "for",
     trees |-> <<NProgram(<<NForStatement(init, test, update, NBlockStatement(body))>>),
                 NProgram(<<(IF init.node.type = "VariableDeclaration" THEN init ELSE Stmt(init)),
                            NWhileStatement(test, NBlockStatement(body \o <<Stmt(update)>>))>>)>>]

\* the value of a statement: what a return of it returns
ValueOf(stmt) ==
    IF stmt.node.type = "ExpressionStatement" THEN <<stmt.kids[1][3]>>
    ELSE IF stmt.node.type = "ReturnStatement" /\ Len(stmt.kids) > 0 THEN <<stmt.kids[1][3]>>
    ELSE <<>>

\* if (test) S [else alt] and if (test) { return <S>; } [else alt]
IfPair(test, S, alts) ==
    [kind |-> "if",
     trees |-> <<NIfStatement(test, S, alts),
                 NIfStatement(test, NBlockStatement(<<NReturnStatement(ValueOf(S))>>), alts)>>]

Single(kind, tree) == [kind |-> kind, trees |-> <<tree>>]

Postfix(x) == NUpdateExpression("++", FALSE, x)
ILessN == NBinaryExpression("<", NIdentifier("i"), NIdentifier("n"))

ForScenarios ==
    { ForPair(init, ILessN, Postfix(NIdentifier("i")), body) :
        init \in { NVariableDeclaration("i", <<NNumericLiteral("0")>>),
                   NAssignmentExpression("=", NIdentifier("i"), NNumericLiteral("0")) },
        body \in { <<>>, <<Stmt(Call1("g", NIdentifier("i")))>> } }

IfScenarios ==
    { IfPair(NIdentifier("c"), S, alts) :
        S \in { Stmt(Call1("g", NIdentifier("x"))),
                NReturnStatement(<<NIdentifier("x")>>),
                NReturnStatement(<<>>) },
        alts \in { <<>>, <<NBlockStatement(<<Stmt(Call1("h", NIdentifier("y")))>>)>> } }

UpdateScenarios ==
    { Single("update", NProgram(<<Stmt(NUpdateExpression("++", prefix, x))>>)) :
        prefix \in BOOLEAN,
        x \in { NIdentifier("i"),
                NMemberExpression(NIdentifier("a"), NIdentifier("b"), FALSE),
                NMemberExpression(NIdentifier("a"), NIdentifier("i"), TRUE),
                NMemberExpression(Call1("f", NIdentifier("x")), NIdentifier("b"), FALSE) } }

Plus(l, r) == NBinaryExpression("+", l, r)

PutsScenarios ==
    { Single("puts", NProgram(<<Stmt(Call1("puts", arg))>>)) :
        arg \in { NIdentifier("a"),
                  NStringLiteral("\"b\""),
                  NStringLiteral("'b'"),
                  Plus(NIdentifier("a"), NStringLiteral("\"b\"")),
                  Plus(NStringLiteral("'b'"), NIdentifier("c")),
                  Plus(NStringLiteral("\"a + b\""), NIdentifier("c")),
                  Plus(Plus(NIdentifier("a"), NStringLiteral("\"b\"")), NIdentifier("c")) } }

\* function f(params) { return cb(1) }, a call of f with someFn at the
\* place of cb (a statement of its own, or inside a declaration), and a
\* call of someFn
HigherOrderProgram(f, params, args, inner) ==
    NProgram(<<NFunctionDeclaration(f, params,
                   NBlockStatement(<<NReturnStatement(<<Call1("cb", NNumericLiteral("1"))>>)>>)),
               (IF inner
                THEN NVariableDeclaration("y", <<Plus(NCallExpression(NIdentifier(f), args),
                                                       NNumericLiteral("1"))>>)
                ELSE Stmt(NCallExpression(NIdentifier(f), args))),
               Stmt(Call1("someFn", NIdentifier("x")))>>)

HigherOrderScenarios ==
    { Single("higher", HigherOrderProgram(f, p.params, p.args, inner)) :
        f \in {"f", "mathematics"},
        p \in { [params |-> <<"cb">>, args |-> <<NIdentifier("someFn")>>],
                [params |-> <<"n", "cb">>,
                 args |-> <<NNumericLiteral("2"), NIdentifier("someFn")>>] },
        inner \in BOOLEAN }

\* Binary expressions nested to depth d: on the left only, on the right
\* only, or on both sides; the operators alternate between op1 and op2.
RECURSIVE Nested(_, _, _, _)
Nested(d, shape, op1, op2) ==
    IF d = 0 THEN NIdentifier("a")
    ELSE NBinaryExpression(op1,
            (IF shape \in {"left", "both"}
             THEN Nested(d - 1, shape, op2, op1) ELSE NIdentifier("a")),
            (IF shape \in {"right", "both"}
             THEN Nested(d - 1, shape, op2, op1) ELSE NNumericLiteral("1")))

BinaryScenarios ==
    { Single("binary", Nested(d, shape, op1, op2)) :
        d \in 1..MaxDepth, shape \in {"left", "right", "both"},
        op1 \in {"+", "*"}, op2 \in {"+", "*"} }

OtherScenarios ==
    { Single("other",
             NProgram(<<NImportDeclaration,
                        NVariableDeclaration("y",
                            <<NCallExpression(
                                NMemberExpression(NIdentifier("Math"), NIdentifier("floor"), FALSE),
                                <<NIdentifier("x")>>)>>),
                        NWhileStatement(
                            NLogicalExpression("&&", NIdentifier("a"), NIdentifier("b")),
                            NBlockStatement(
                                <<NVariableDeclaration("z", <<>>),
                                  NIfStatement(NIdentifier("c"),
                                      NBlockStatement(<<Stmt(Call1("g", NIdentifier("x")))>>),
                                      <<NBlockStatement(<<Stmt(Call1("h", NIdentifier("y")))>>)>>)>>))>>)) }

Scenarios ==
    ForScenarios \cup IfScenarios \cup UpdateScenarios \cup PutsScenarios
    \cup HigherOrderScenarios \cup BinaryScenarios \cup OtherScenarios

----------------------------------------------------------------------------

Init ==
    \E sc \in Scenarios :
        LET f == Forest(sc.trees, <<>>, <<>>)
        IN  /\ heap = f.heap
            /\ heap0 = f.heap
            /\ input = [kind |-> sc.kind, roots |-> f.roots]
    /\ buffer = NewBuffer
    /\ stack = <<>>
    /\ pc = "idle"
    /\ run = [root |-> 0, fresh |-> TRUE, pristine |-> TRUE]
    /\ results = <<>>

Next ==
    \/ \E k \in 1..Len(input.roots) : Parse(input.roots[k])
    \/ ParseReturn
    \/ Clear
    \/ Program
    \/ ImportDeclaration
    \/ ExpressionStatement
    \/ FunctionDeclaration
    \/ AssignmentExpression
    \/ BlockStatement
    \/ VariableDeclaration
    \/ VariableDeclarator
    \/ ReturnStatement
    \/ CallExpression
    \/ MemberExpression
    \/ BinaryExpression
    \/ LogicalExpression
    \/ IfStatement
    \/ IfConsequent
    \/ IfAlternate
    \/ WhileStatement
    \/ ForStatement
    \/ ForDesugar
    \/ UpdateExpression
    \/ Identifier
    \/ NumericLiteral
    \/ StringLiteral
    \/ BufferAddCall
    \/ BufferNewlineCall
    \/ BufferIndentCall
    \/ BufferDedentCall
    \/ BufferTrimCall
    \/ BufferDeleteLinesCall
    \/ Return

Spec == Init /\ [][Next]_vars

----------------------------------------------------------------------------
(* The properties.                                                         *)

\* a call made on a transpiler as constructed, on the AST as the caller built it
FirstUse(i) == results[i].fresh /\ results[i].pristine

\* the text of a leaf of an expression
LeafText(n) == IF heap0[n].type = "Identifier" THEN heap0[n].name ELSE heap0[n].raw

\* C1: for every for statement, the emitted text equals the text emitted
\* for: init as a statement, then a while loop with the same test whose body
\* is the original body followed by update as its last statement.
C1_ForEmitsInitThenWhile ==
    \A i, j \in DOMAIN results :
        (/\ input.kind = "for"
         /\ results[i].root = input.roots[1] /\ FirstUse(i)
         /\ results[j].root = input.roots[2] /\ results[j].fresh)
        => results[i].raw = results[j].raw

\* C2: an if statement whose consequent is a single non-block statement S
\* emits the text of the same if statement with the consequent replaced by
\* a block holding one return of S's value.
C2_IfConsequentEmittedAsReturn ==
    \A i, j \in DOMAIN results :
        (/\ input.kind = "if"
         /\ results[i].root = input.roots[1] /\ FirstUse(i)
         /\ results[j].root = input.roots[2] /\ results[j].fresh)
        => results[i].raw = results[j].raw

\* how many parentheses are open before position k of t
Depth(t, k) == Count(Slice(t, 1, k - 1), <<"(">>) - Count(Slice(t, 1, k - 1), <<")">>)

\* t reads as node n: a leaf as its text; a binary expression as its two
\* operands around its operator, an operand in parentheses exactly when it
\* is a binary expression
RECURSIVE Grouped(_, _), GroupedOperand(_, _)
Grouped(t, n) ==
    IF heap0[n].type # "BinaryExpression" THEN t = LeafText(n)
    ELSE LET sep == <<" ">> \o heap0[n].operator \o <<" ">>
         IN  \E k \in 1..Len(t) :
                /\ At(t, sep, k)
                /\ Depth(t, k) = 0
                /\ GroupedOperand(Slice(t, 1, k - 1), heap0[n].left)
                /\ GroupedOperand(Slice(t, k + Len(sep), Len(t)), heap0[n].right)
GroupedOperand(t, n) ==
    IF heap0[n].type = "BinaryExpression"
    THEN Len(t) >= 2 /\ t[1] = "(" /\ t[Len(t)] = ")" /\ Grouped(Slice(t, 2, Len(t) - 1), n)
    ELSE ~Contains(t, <<"(">>) /\ ~Contains(t, <<")">>) /\ Grouped(t, n)

\* how many operands of binary expressions below n are binary expressions
RECURSIVE BinaryOperands(_)
BinaryOperands(n) ==
    IF heap0[n].type # "BinaryExpression" THEN 0
    ELSE (IF heap0[heap0[n].left].type = "BinaryExpression" THEN 1 ELSE 0)
         + (IF heap0[heap0[n].right].type = "BinaryExpression" THEN 1 ELSE 0)
         + BinaryOperands(heap0[n].left) + BinaryOperands(heap0[n].right)

\* C3: the text emitted for a binary expression has a pair of parentheses
\* around an operand exactly when that operand is a binary expression, at
\* every depth, and no other parenthesis.
C3_ParenthesesExactlyAroundBinaryOperands ==
    \A i \in DOMAIN results :
        (input.kind = "binary" /\ FirstUse(i))
        => /\ Grouped(results[i].raw, results[i].root)
           /\ Count(results[i].raw, <<"(">>) = BinaryOperands(results[i].root)
           /\ Count(results[i].raw, <<")">>) = BinaryOperands(results[i].root)
           /\ results[i].text = results[i].raw

\* a binary expression both of whose operands are binary expressions of
\* another operator has been translated
C3_Witness ==
    \E i \in DOMAIN results :
        LET node == heap0[results[i].root]
        IN  /\ input.kind = "binary" /\ FirstUse(i)
            /\ heap0[node.left].type = "BinaryExpression"
            /\ heap0[node.right].type = "BinaryExpression"
            /\ heap0[node.left].operator # node.operator
            /\ Count(results[i].raw, <<"(">>) = 2

\* C4: for a postfix increment of an identifier, a member access or a
\* computed member access, the text parse returns holds '<operand> += 1'
\* and no '++'.
C4_PostfixIncrementBecomesCompoundAssignment ==
    \A i \in DOMAIN results :
        LET update == heap0[heap0[heap0[results[i].root].body[1]].expression]
            operand == Slice(results[i].raw, 1, Len(results[i].raw) - 3)
        IN  (input.kind = "update" /\ FirstUse(i) /\ ~update.prefix)
            => /\ Contains(results[i].text, operand \o Chars(" += 1"))
               /\ ~Contains(results[i].text, Chars("++"))

\* C5: the correction pipeline is idempotent on the text it returns.
C5_CorrectIsIdempotent ==
    \A i \in DOMAIN results : Correct(results[i].text) = results[i].text

\* the function declared first in the program at root r, and the call of it
Declared(r) == heap0[heap0[r].body[1]]
CallOf(r) ==
    CHOOSE n \in DOMAIN heap0 :
        /\ heap0[n].type = "CallExpression"
        /\ heap0[heap0[n].callee].name = heap0[Declared(r).id].name

\* the arguments of the call, the one at the place of a parameter that the
\* function calls as a method reference
ReferencedArguments(r) ==
    LET params == Declared(r).params
        args == heap0[CallOf(r)].arguments
    IN  Join([k \in 1..Len(args) |->
                IF heap0[params[k]].name = Chars("cb")
                THEN Chars("method(:") \o LeafText(args[k]) \o Chars(")")
                ELSE LeafText(args[k])],
             Chars(", "))

\* C6: when f calls its parameter cb, the argument at cb's place in a call
\* of f becomes a method reference, whatever f is named; the other arguments
\* and the direct call someFn(x) stay as they are.
C6_CallableArgumentBecomesMethodReference ==
    \A i \in DOMAIN results :
        (input.kind = "higher" /\ FirstUse(i))
        => /\ Contains(results[i].text,
                       heap0[Declared(results[i].root).id].name \o Chars("(")
                       \o ReferencedArguments(results[i].root) \o Chars(")"))
           /\ Contains(results[i].text, Chars("\nsomeFn(x)\n"))

\* the leaves of the expression at n, left to right
RECURSIVE Operands(_)
Operands(n) ==
    IF heap0[n].type = "BinaryExpression"
    THEN Operands(heap0[n].left) \o Operands(heap0[n].right)
    ELSE <<LeafText(n)>>

\* an operand as the claim wants it printed
Stringified(operand) ==
    IF operand[1] \in {"'", "\""} THEN operand ELSE Chars("(") \o operand \o Chars(").to_s")

\* C7: when the argument of a print call is a ' + '-joined list of operands,
\* every operand that does not start with a quote is wrapped as
\* '(<operand>).to_s', every operand that starts with a quote is left as it
\* is, in the original order, in one print call.
C7_PutsStringifiesUnquotedOperands ==
    \A i \in DOMAIN results :
        LET operands == Operands(heap0[heap0[heap0[results[i].root].body[1]].expression].arguments[1])
        IN  (/\ input.kind = "puts" /\ FirstUse(i)
             /\ results[i].raw = Chars("puts(") \o Join(operands, Chars(" + ")) \o Chars(")\n"))
            => results[i].text
               = Chars("puts(")
                 \o Join([k \in 1..Len(operands) |-> Stringified(operands[k])], Chars(" + "))
                 \o Chars(")\n")

\* n is the consequent of an if statement of the caller's AST
IsConsequent(n) ==
    \E m \in DOMAIN heap0 : heap0[m].type = "IfStatement" /\ heap0[m].consequent = n

\* C8: parse leaves the caller's AST as it was, but for the consequent of
\* an if statement that it wraps into a block.
C8_ParseLeavesTheAstUnchanged ==
    (pc = "idle" /\ Len(results) > 0)
    => \A n \in DOMAIN heap0 : IsConsequent(n) \/ heap[n] = heap0[n]

\* C9: a parse call returns what a freshly constructed transpiler returns
\* for the same root, whatever was parsed on the instance before.
C9_ParseReturnsWhatANewTranspilerReturns ==
    \A i, j \in DOMAIN results :
        (/\ results[i].root = results[j].root
         /\ FirstUse(j)
         /\ results[i].pristine)
        => results[i].text = results[j].text

\* the block operations in progress: handlers entered and not yet returned
BlocksInProgress ==
    Cardinality({ k \in DOMAIN stack : stack[k].k = "ret" /\ stack[k].op = "BlockStatement" })

\* the block operations that have indented and not yet dedented
BlocksInside ==
    Cardinality({ k \in DOMAIN stack : stack[k].k = "dedent" })
    - Cardinality({ k \in DOMAIN stack : stack[k].k = "indent" })

\* the indentation counter at the entry of the innermost block in progress
EntryIndentation ==
    LET rets == { k \in DOMAIN stack : stack[k].k = "ret" /\ stack[k].op = "BlockStatement" }
    IN  stack[Least(rets)].ind

RECURSIVE LeadingSpaces(_)
LeadingSpaces(t) ==
    IF Len(t) > 0 /\ t[1] = " " THEN 1 + LeadingSpaces(Tail(t)) ELSE 0

====
